---- MODULE Spec2Model ----
(***************************************************************************)
(* Model of the lexical reader of magnesia (src/src/reader.rs).            *)
(*                                                                         *)
(* A character is a one-character string; a Rust String is a sequence of   *)
(* characters.  A Reader is the record [s, buf]: s is the input not yet    *)
(* taken from the Peekable<Chars>, buf is the pushback Vec<char> (index 1  *)
(* is Rust's buf[0], the last element is what Vec::pop returns).           *)
(*                                                                         *)
(* op, arg and res are the last operation completed, its arguments and the *)
(* value it returned; calls is the trace of stream calls it made.  loop is *)
(* the frame of a reader whose loop is still running (step-level           *)
(* specification only).                                                    *)
(***************************************************************************)
EXTENDS Naturals, Sequences, FiniteSets, TLC

VARIABLES s, buf, op, arg, res, calls, run, loop

vars == <<s, buf, op, arg, res, calls, run, loop>>

(* ------------------------------ bounds --------------------------------- *)

MaxLen == 3

MaxBuf == 3

MaxTok == 5

MaxPush == 1

(* --------------------------- value encodings --------------------------- *)

Ok(v) == [ok |-> TRUE, val |-> v]

Err(e) == [ok |-> FALSE, err |-> e]

ReaderError ==
    {"EOF", "CannotUnreadChar", "InvalidToken", "InvalidCharacter",
     "InvalidSymbol", "InvalidKeyword"}

Unit == "()"

None == <<>>

Some(x) == <<x>>

Reader(ss, bb) == [s |-> ss, buf |-> bb]

string_reader(str) == Reader(str, <<>>)

SeqsUpTo(S, n) == UNION {[1..k -> S] : k \in 0..n}

Reverse(q) == [i \in 1..Len(q) |-> q[Len(q) + 1 - i]]

(* ---------------------------- character stream ------------------------- *)

peek_char(r) ==
    IF Len(r.buf) > 0
    THEN Ok(r.buf[1])
    ELSE IF r.s # <<>> THEN Ok(Head(r.s)) ELSE Err("EOF")

(* peek_char taking the character it reports, as read_char does. *)
peek_char_call_consuming(r) ==
    IF r.buf # <<>>
    THEN [res |-> Ok(r.buf[1]), r |-> [r EXCEPT !.buf = Tail(r.buf)]]
    ELSE IF r.s # <<>>
         THEN [res |-> Ok(Head(r.s)), r |-> [r EXCEPT !.s = Tail(r.s)]]
         ELSE [res |-> Err("EOF"), r |-> r]

(* peek_char as a call on the &mut Reader: its result and the reader it    *)
(* leaves; buf is indexed, not popped, and s is peeked, not advanced.      *)
peek_char_call(r) == [res |-> peek_char(r), r |-> r]

(* read_char taking the oldest pushed character instead of the newest. *)
read_char_fifo(r) ==
    IF r.buf # <<>>
    THEN [res |-> Ok(r.buf[1]), r |-> [r EXCEPT !.buf = Tail(r.buf)]]
    ELSE IF r.s # <<>>
         THEN [res |-> Ok(Head(r.s)), r |-> [r EXCEPT !.s = Tail(r.s)]]
         ELSE [res |-> Err("EOF"), r |-> r]

read_char(r) ==
    IF r.buf # <<>>
    THEN [res |-> Ok(r.buf[Len(r.buf)]),
          r   |-> [r EXCEPT !.buf = SubSeq(r.buf, 1, Len(r.buf) - 1)]]
    ELSE IF r.s # <<>>
         THEN [res |-> Ok(Head(r.s)), r |-> [r EXCEPT !.s = Tail(r.s)]]
         ELSE [res |-> Err("EOF"), r |-> r]

unread_char(r, c) ==
    [res |-> Ok(Unit), r |-> [r EXCEPT !.buf = Append(r.buf, c)]]

(* ---------------------------- classifiers ------------------------------ *)

(* The grave accent cannot be written inside a TLA+ string; it is the one   *)
(* character spelled out by name.                                          *)
GraveAccent == "grave"

is_macro_terminating(c) ==
    c \in {"\"", ";", "@", "^", GraveAccent, "~", "\\",
           "(", ")", "[", "]", "{", "}"}

(* is_whitespace knowing the space alone. *)
is_whitespace_spaceonly(c) == c = " "

is_whitespace(c) == c \in {" ", "\n", "\r"}

(* The closures handed to read_while, by name. *)
Pred(p, c) ==
    CASE p = "quote"    -> c = "\""
      [] p = "boundary" -> is_macro_terminating(c) \/ is_whitespace(c)
      [] p = "space"    -> c = " "

Preds == {"quote", "boundary", "space"}

(* ------------------------------ read_while ----------------------------- *)

(* read_while_step returning Ok at end of input whatever eof_err says. *)
read_while_step_noflag(r, p, eof_err, str, cs) ==
    LET rc == read_char(r) IN
    IF rc.res.ok
    THEN LET c   == rc.res.val
             cs1 == Append(cs, <<"read_char", c>>)
         IN  IF Pred(p, c)
             THEN [done |-> TRUE, res |-> Ok(str), r |-> unread_char(rc.r, c).r,
                   str |-> str, calls |-> Append(cs1, <<"unread_char", c>>)]
             ELSE [done |-> FALSE, res |-> Ok(str), r |-> rc.r,
                   str |-> Append(str, c), calls |-> cs1]
    ELSE [done |-> TRUE, res |-> Ok(str),
          r |-> rc.r, str |-> str, calls |-> Append(cs, <<"read_char", "EOF">>)]

(* read_while_step looking at the next character without taking it. *)
read_while_step_peeking(r, p, eof_err, str, cs) ==
    LET pc == peek_char(r) IN
    IF pc.ok
    THEN LET c   == pc.val
             cs1 == Append(cs, <<"peek_char", c>>)
         IN  IF Pred(p, c)
             THEN [done |-> TRUE, res |-> Ok(str), r |-> r, str |-> str,
                   calls |-> cs1]
             ELSE [done |-> FALSE, res |-> Ok(str), r |-> r,
                   str |-> Append(str, c), calls |-> cs1]
    ELSE [done |-> TRUE, res |-> IF eof_err THEN Err("EOF") ELSE Ok(str),
          r |-> r, str |-> str, calls |-> Append(cs, <<"peek_char", "EOF">>)]

(* read_while_step giving back the terminator and the character before it. *)
read_while_step_backtrack(r, p, eof_err, str, cs) ==
    LET rc == read_char(r) IN
    IF rc.res.ok
    THEN LET c   == rc.res.val
             cs1 == Append(cs, <<"read_char", c>>)
         IN  IF Pred(p, c)
             THEN IF str = <<>>
                  THEN [done |-> TRUE, res |-> Ok(str), r |-> unread_char(rc.r, c).r,
                        str |-> str, calls |-> Append(cs1, <<"unread_char", c>>)]
                  ELSE [done |-> TRUE, res |-> Ok(SubSeq(str, 1, Len(str) - 1)),
                        r |-> unread_char(unread_char(rc.r, c).r, str[Len(str)]).r,
                        str |-> str,
                        calls |-> cs1 \o << <<"unread_char", c>>,
                                            <<"unread_char", str[Len(str)]>> >>]
             ELSE [done |-> FALSE, res |-> Ok(str), r |-> rc.r,
                   str |-> Append(str, c), calls |-> cs1]
    ELSE [done |-> TRUE, res |-> IF eof_err THEN Err("EOF") ELSE Ok(str),
          r |-> rc.r, str |-> str, calls |-> Append(cs, <<"read_char", "EOF">>)]

(* read_while_step keeping the terminating character out of the stream. *)
read_while_step_consuming(r, p, eof_err, str, cs) ==
    LET rc == read_char(r) IN
    IF rc.res.ok
    THEN LET c   == rc.res.val
             cs1 == Append(cs, <<"read_char", c>>)
         IN  IF Pred(p, c)
             THEN [done |-> TRUE, res |-> Ok(str), r |-> rc.r,
                   str |-> str, calls |-> cs1]
             ELSE [done |-> FALSE, res |-> Ok(str), r |-> rc.r,
                   str |-> Append(str, c), calls |-> cs1]
    ELSE [done |-> TRUE, res |-> IF eof_err THEN Err("EOF") ELSE Ok(str),
          r |-> rc.r, str |-> str, calls |-> Append(cs, <<"read_char", "EOF">>)]

(* One iteration of the while-let loop.  done = TRUE carries the value the  *)
(* function returns; calls is the trace of stream calls made so far.        *)
read_while_step(r, p, eof_err, str, cs) ==
    LET rc == read_char(r) IN
    IF rc.res.ok
    THEN LET c   == rc.res.val
             cs1 == Append(cs, <<"read_char", c>>)
         IN  IF Pred(p, c)
             THEN [done |-> TRUE, res |-> Ok(str), r |-> unread_char(rc.r, c).r,
                   str |-> str, calls |-> Append(cs1, <<"unread_char", c>>)]
             ELSE [done |-> FALSE, res |-> Ok(str), r |-> rc.r,
                   str |-> Append(str, c), calls |-> cs1]
    ELSE [done |-> TRUE, res |-> IF eof_err THEN Err("EOF") ELSE Ok(str),
          r |-> rc.r, str |-> str, calls |-> Append(cs, <<"read_char", "EOF">>)]

RECURSIVE read_while_loop(_, _, _, _, _)
read_while_loop(r, p, eof_err, str, cs) ==
    LET st == read_while_step(r, p, eof_err, str, cs) IN
    IF st.done
    THEN [res |-> st.res, r |-> st.r, calls |-> st.calls]
    ELSE read_while_loop(st.r, p, eof_err, st.str, st.calls)

read_while(r, p, eof_err) == read_while_loop(r, p, eof_err, <<>>, <<>>)

(* ---------------------------- string literals -------------------------- *)

(* escape_char returning the escaped character itself, undecoded. *)
escape_char_verbatim(c) ==
    IF c \in {"t", "r", "n", "\\", "\""} THEN Ok(<<c>>) ELSE Err("InvalidCharacter")

escape_char(c) ==
    CASE c = "t"  -> Ok(<<"\t">>)
      [] c = "r"  -> Ok(<<"\r">>)
      [] c = "n"  -> Ok(<<"\n">>)
      [] c = "\\" -> Ok(<<"\\">>)
      [] c = "\"" -> Ok(<<"\"">>)
      [] OTHER    -> Err("InvalidCharacter")

(* One iteration of the loop of read_string_type. *)
read_string_type_step(r, str, cs) ==
    LET rc == read_char(r) IN
    IF ~rc.res.ok
    THEN [done |-> TRUE, res |-> Err(rc.res.err), r |-> rc.r, str |-> str,
          calls |-> Append(cs, <<"read_char", "EOF">>)]
    ELSE LET c   == rc.res.val
             cs1 == Append(cs, <<"read_char", c>>)
         IN  IF c = "\""
             THEN [done |-> TRUE, res |-> Ok(str), r |-> rc.r, str |-> str,
                   calls |-> cs1]
             ELSE IF c = "\\"
             THEN LET rc2 == read_char(rc.r) IN
                  IF ~rc2.res.ok
                  THEN [done |-> TRUE, res |-> Err(rc2.res.err), r |-> rc2.r,
                        str |-> str,
                        calls |-> Append(cs1, <<"read_char", "EOF">>)]
                  ELSE LET e   == escape_char(rc2.res.val)
                           cs2 == Append(cs1, <<"read_char", rc2.res.val>>)
                       IN  IF e.ok
                           THEN [done |-> FALSE, res |-> Ok(str), r |-> rc2.r,
                                 str |-> str \o e.val, calls |-> cs2]
                           ELSE [done |-> TRUE, res |-> Err(e.err), r |-> rc2.r,
                                 str |-> str, calls |-> cs2]
             ELSE [done |-> FALSE, res |-> Ok(str), r |-> rc.r,
                   str |-> Append(str, c), calls |-> cs1]

RECURSIVE read_string_type_loop(_, _, _)
read_string_type_loop(r, str, cs) ==
    LET st == read_string_type_step(r, str, cs) IN
    IF st.done
    THEN [res |-> st.res, r |-> st.r, calls |-> st.calls]
    ELSE read_string_type_loop(st.r, st.str, st.calls)

read_string_type(r) == read_string_type_loop(r, <<>>, <<>>)

(* ----------------------------- regex literals -------------------------- *)

Pattern(body) == [tag |-> "Pattern", body |-> body]

(* read_regex accepting end of input as the end of the pattern. *)
read_regex_lenient(r) ==
    LET out == read_while(r, "quote", FALSE) IN
    [res   |-> IF out.res.ok THEN Ok(Pattern(out.res.val)) ELSE out.res,
     r     |-> out.r,
     calls |-> out.calls]

read_regex(r) ==
    LET out == read_while(r, "quote", TRUE) IN
    [res   |-> IF out.res.ok THEN Ok(Pattern(out.res.val)) ELSE out.res,
     r     |-> out.r,
     calls |-> out.calls]

(* ------------------------------ read_token ----------------------------- *)

read_token(r, initch) ==
    LET out == read_while(r, "boundary", FALSE) IN
    [res   |-> IF out.res.ok THEN Ok(<<initch>> \o out.res.val) ELSE out.res,
     r     |-> out.r,
     calls |-> out.calls]

(* ----------------------------- parse_symbol ---------------------------- *)

ends_with(str, c) == str # <<>> /\ str[Len(str)] = c

starts_with(str, pat) ==
    Len(str) >= Len(pat) /\ SubSeq(str, 1, Len(pat)) = pat

(* str::rsplit(sep): the pieces between separators, rightmost piece first. *)
RECURSIVE rsplit(_, _)
rsplit(str, sep) ==
    IF \E i \in 1..Len(str) : str[i] = sep
    THEN LET i == CHOOSE k \in 1..Len(str) :
                      /\ str[k] = sep
                      /\ \A j \in (k + 1)..Len(str) : str[j] # sep
         IN  <<SubSeq(str, i + 1, Len(str))>> \o rsplit(SubSeq(str, 1, i - 1), sep)
    ELSE <<str>>

(* Iterator::next on the pieces not yet taken. *)
next(it) == IF it = <<>> THEN None ELSE Some(Head(it))

(* parse_symbol rejecting only the empty token and a trailing colon. *)
parse_symbol_nodouble(token) ==
    IF token = <<>> \/ ends_with(token, ":")
    THEN Err("InvalidSymbol")
    ELSE LET tokens == rsplit(token, "/")
             name   == next(tokens)
             ns     == next(IF tokens = <<>> THEN <<>> ELSE Tail(tokens))
         IN  IF name # None
             THEN Ok([ns |-> ns, name |-> name[1]])
             ELSE Err("InvalidSymbol")

parse_symbol(token) ==
    IF token = <<>> \/ ends_with(token, ":") \/ starts_with(token, <<":", ":">>)
    THEN Err("InvalidSymbol")
    ELSE LET tokens == rsplit(token, "/")
             name   == next(tokens)
             ns     == next(IF tokens = <<>> THEN <<>> ELSE Tail(tokens))
         IN  IF name # None
             THEN Ok([ns |-> ns, name |-> name[1]])
             ELSE Err("InvalidSymbol")

(* ------------------------ read_symbol, read_keyword -------------------- *)

SimpleSymbol(name) == [tag |-> "SimpleSymbol", name |-> name]

NamespacedSymbol(ns, name) == [tag |-> "NamespacedSymbol", ns |-> ns, name |-> name]

SimpleKeyword(name) == [tag |-> "SimpleKeyword", name |-> name]

NamespacedKeyword(ns, name) == [tag |-> "NamespacedKeyword", ns |-> ns, name |-> name]

(* read_symbol without the special case of the lone slash. *)
read_symbol_nospecial(r, initch) ==
    LET tok == read_token(r, initch)
        val == IF ~tok.res.ok THEN tok.res
               ELSE LET ps == parse_symbol(tok.res.val) IN
                    IF ~ps.ok THEN ps
                    ELSE IF ps.val.ns = None
                         THEN Ok(SimpleSymbol(ps.val.name))
                         ELSE Ok(NamespacedSymbol(ps.val.ns[1], ps.val.name))
    IN  [res |-> val, r |-> tok.r, calls |-> tok.calls]

read_symbol(r, initch) ==
    LET tok == read_token(r, initch)
        val == IF ~tok.res.ok THEN tok.res
               ELSE IF tok.res.val = <<"/">> THEN Ok(SimpleSymbol(<<"/">>))
               ELSE LET ps == parse_symbol(tok.res.val) IN
                    IF ~ps.ok THEN ps
                    ELSE IF ps.val.ns = None
                         THEN Ok(SimpleSymbol(ps.val.name))
                         ELSE Ok(NamespacedSymbol(ps.val.ns[1], ps.val.name))
    IN  [res |-> val, r |-> tok.r, calls |-> tok.calls]

(* read_keyword testing the leading colon before parse_symbol's verdict. *)
read_keyword_colonfirst(r) ==
    LET rc == read_char(r) IN
    IF ~rc.res.ok
    THEN [res |-> rc.res, r |-> rc.r, calls |-> << <<"read_char", "EOF">> >>]
    ELSE LET c   == rc.res.val
             cs1 == << <<"read_char", c>> >>
         IN  IF is_whitespace(c)
             THEN [res |-> Err("InvalidToken"), r |-> rc.r, calls |-> cs1]
             ELSE LET tok == read_token(rc.r, c)
                      cs2 == cs1 \o tok.calls
                  IN  IF ~tok.res.ok
                      THEN [res |-> tok.res, r |-> tok.r, calls |-> cs2]
                      ELSE LET token == tok.res.val
                               ps    == parse_symbol(token)
                           IN  IF token[1] = ":"
                               THEN [res |-> Err("InvalidKeyword"), r |-> tok.r,
                                     calls |-> cs2]
                               ELSE IF ~ps.ok
                               THEN [res |-> ps, r |-> tok.r, calls |-> cs2]
                               ELSE [res |-> IF ps.val.ns # None
                                             THEN Ok(NamespacedKeyword(ps.val.ns[1],
                                                                       ps.val.name))
                                             ELSE Ok(SimpleKeyword(ps.val.name)),
                                     r |-> tok.r, calls |-> cs2]

read_keyword(r) ==
    LET rc == read_char(r) IN
    IF ~rc.res.ok
    THEN [res |-> rc.res, r |-> rc.r, calls |-> << <<"read_char", "EOF">> >>]
    ELSE LET c   == rc.res.val
             cs1 == << <<"read_char", c>> >>
         IN  IF is_whitespace(c)
             THEN [res |-> Err("InvalidToken"), r |-> rc.r, calls |-> cs1]
             ELSE LET tok == read_token(rc.r, c)
                      cs2 == cs1 \o tok.calls
                  IN  IF ~tok.res.ok
                      THEN [res |-> tok.res, r |-> tok.r, calls |-> cs2]
                      ELSE LET token == tok.res.val
                               ps    == parse_symbol(token)
                           IN  IF ~ps.ok
                               THEN [res |-> ps, r |-> tok.r, calls |-> cs2]
                               ELSE IF token[1] = ":"
                               THEN [res |-> Err("InvalidKeyword"), r |-> tok.r,
                                     calls |-> cs2]
                               ELSE [res |-> IF ps.val.ns # None
                                             THEN Ok(NamespacedKeyword(ps.val.ns[1],
                                                                       ps.val.name))
                                             ELSE Ok(SimpleKeyword(ps.val.name)),
                                     r |-> tok.r, calls |-> cs2]

(* --------------------- what a reader does after its loop --------------- *)

(* read_regex, read_token, read_symbol and read_keyword once their          *)
(* read_while has returned w (read_symbol and read_keyword: once their      *)
(* read_token has returned tok).                                            *)
read_regex_rest(w) == IF w.ok THEN Ok(Pattern(w.val)) ELSE w

read_token_rest(w, initch) == IF w.ok THEN Ok(<<initch>> \o w.val) ELSE w

read_symbol_rest(tok) ==
    IF ~tok.ok THEN tok
    ELSE IF tok.val = <<"/">> THEN Ok(SimpleSymbol(<<"/">>))
    ELSE LET ps == parse_symbol(tok.val) IN
         IF ~ps.ok THEN ps
         ELSE IF ps.val.ns = None
              THEN Ok(SimpleSymbol(ps.val.name))
              ELSE Ok(NamespacedSymbol(ps.val.ns[1], ps.val.name))

read_keyword_rest(tok) ==
    IF ~tok.ok THEN tok
    ELSE LET ps == parse_symbol(tok.val) IN
         IF ~ps.ok THEN ps
         ELSE IF tok.val[1] = ":" THEN Err("InvalidKeyword")
         ELSE IF ps.val.ns # None
              THEN Ok(NamespacedKeyword(ps.val.ns[1], ps.val.name))
              ELSE Ok(SimpleKeyword(ps.val.name))

(* The value reader fn returns when its loop has returned w. *)
finish(fn, initch, w) ==
    CASE fn = "read_regex"   -> read_regex_rest(w)
      [] fn = "read_token"   -> read_token_rest(w, initch)
      [] fn = "read_symbol"  -> read_symbol_rest(read_token_rest(w, initch))
      [] fn = "read_keyword" -> read_keyword_rest(read_token_rest(w, initch))
      [] OTHER               -> w

(* -------------------------------- printer ------------------------------ *)

(* fmt::Display for Symbol, Keyword and Pattern: the text written. *)
display_symbol(sym) ==
    IF sym.tag = "SimpleSymbol"
    THEN sym.name
    ELSE sym.ns \o <<"/">> \o sym.name

display_keyword(kw) ==
    IF kw.tag = "SimpleKeyword"
    THEN <<":">> \o kw.name
    ELSE <<":">> \o kw.ns \o <<"/">> \o kw.name

display_pattern(pat) == <<"#", "\"">> \o pat.body \o <<"\"">>

(* ------------------------- run of unreads then reads ------------------- *)

(* History of the current run "unread_char* read_char*": base is the reader *)
(* before the first unread_char, pushed the characters unread, got the      *)
(* characters the read_char calls after them returned, eof whether one of   *)
(* those calls returned EOF.                                                *)
Idle == [phase |-> "idle", base |-> Reader(<<>>, <<>>), pushed |-> <<>>,
         got |-> <<>>, eof |-> FALSE]

RunUnread(c) ==
    IF run.phase = "push"
    THEN [run EXCEPT !.pushed = Append(@, c)]
    ELSE [phase |-> "push", base |-> Reader(s, buf), pushed |-> <<c>>,
          got |-> <<>>, eof |-> FALSE]

RunRead(result) ==
    IF run.phase = "idle"
    THEN Idle
    ELSE IF result.ok
         THEN [run EXCEPT !.phase = "pop", !.got = Append(@, result.val)]
         ELSE [run EXCEPT !.phase = "pop", !.eof = TRUE]

(* ---------------------------- a running loop -------------------------- *)

(* The frame of a reader inside its loop: fn the reader that was called,   *)
(* p and eof_err the arguments of its read_while, initch its first         *)
(* character, str the accumulator, entry the reader it was called on.      *)
Frame(fn, p, eof_err, initch, str, entry) ==
    [active |-> TRUE, fn |-> fn, p |-> p, eof_err |-> eof_err,
     initch |-> initch, str |-> str, entry |-> entry]

NoLoop ==
    [active |-> FALSE, fn |-> "", p |-> "", eof_err |-> FALSE, initch |-> "",
     str |-> <<>>, entry |-> Reader(<<>>, <<>>)]

(* ------------------------------- actions ------------------------------- *)

NoArg == [none |-> TRUE]

Start(ss) ==
    /\ s = ss
    /\ buf = <<>>
    /\ op = "string_reader"
    /\ arg = NoArg
    /\ res = Ok(Unit)
    /\ calls = <<>>
    /\ run = Idle
    /\ loop = NoLoop

PeekChar ==
    \E out \in {peek_char_call(Reader(s, buf))} :
    /\ op' = "peek_char"
    /\ arg' = NoArg
    /\ res' = out.res
    /\ s' = out.r.s
    /\ buf' = out.r.buf
    /\ calls' = << <<"peek_char", IF out.res.ok THEN out.res.val ELSE "EOF">> >>
    /\ run' = Idle
    /\ loop' = NoLoop

ReadChar ==
    \E out \in {read_char(Reader(s, buf))} :
    /\ op' = "read_char"
    /\ arg' = NoArg
    /\ res' = out.res
    /\ s' = out.r.s
    /\ buf' = out.r.buf
    /\ calls' = << <<"read_char", IF out.res.ok THEN out.res.val ELSE "EOF">> >>
    /\ run' = RunRead(out.res)
    /\ loop' = NoLoop

UnreadCharCall(c) ==
    \E out \in {unread_char(Reader(s, buf), c)} :
    /\ op' = "unread_char"
    /\ arg' = [c |-> c]
    /\ res' = out.res
    /\ s' = out.r.s
    /\ buf' = out.r.buf
    /\ calls' = << <<"unread_char", c>> >>
    /\ run' = RunUnread(c)
    /\ loop' = NoLoop

(* unread_char at any time, the buffer depth capped at MaxBuf. *)
UnreadChar(c) == Len(buf) < MaxBuf /\ UnreadCharCall(c)

(* unread_char by the caller before it invokes a literal reader: at most    *)
(* MaxPush characters, pushed right after construction.                     *)
Pushback(c) ==
    /\ op \in {"string_reader", "unread_char"}
    /\ Len(buf) < MaxPush
    /\ UnreadCharCall(c)

ReadWhile(p, eof_err) ==
    \E out \in {read_while(Reader(s, buf), p, eof_err)} :
    /\ op' = "read_while"
    /\ arg' = [p |-> p, eof_err |-> eof_err]
    /\ res' = out.res
    /\ s' = out.r.s
    /\ buf' = out.r.buf
    /\ calls' = out.calls
    /\ run' = Idle
    /\ loop' = NoLoop

ReadToken(initch) ==
    \E out \in {read_token(Reader(s, buf), initch)} :
    /\ op' = "read_token"
    /\ arg' = [initch |-> initch]
    /\ res' = out.res
    /\ s' = out.r.s
    /\ buf' = out.r.buf
    /\ calls' = out.calls
    /\ run' = Idle
    /\ loop' = NoLoop

ParseSymbol(token) ==
    /\ op' = "parse_symbol"
    /\ arg' = [token |-> token]
    /\ res' = parse_symbol(token)
    /\ calls' = <<>>
    /\ run' = Idle
    /\ loop' = NoLoop
    /\ UNCHANGED <<s, buf>>

ReadSymbol(initch) ==
    \E out \in {read_symbol(Reader(s, buf), initch)} :
    /\ op' = "read_symbol"
    /\ arg' = [initch |-> initch]
    /\ res' = out.res
    /\ s' = out.r.s
    /\ buf' = out.r.buf
    /\ calls' = out.calls
    /\ run' = Idle
    /\ loop' = NoLoop

ReadKeyword ==
    \E out \in {read_keyword(Reader(s, buf))} :
    /\ op' = "read_keyword"
    /\ arg' = NoArg
    /\ res' = out.res
    /\ s' = out.r.s
    /\ buf' = out.r.buf
    /\ calls' = out.calls
    /\ run' = Idle
    /\ loop' = NoLoop

(* The char argument of read_string_type and read_regex is ignored by both. *)
ReadStringType ==
    \E out \in {read_string_type(Reader(s, buf))} :
    /\ op' = "read_string_type"
    /\ arg' = NoArg
    /\ res' = out.res
    /\ s' = out.r.s
    /\ buf' = out.r.buf
    /\ calls' = out.calls
    /\ run' = Idle
    /\ loop' = NoLoop

ReadRegex ==
    \E out \in {read_regex(Reader(s, buf))} :
    /\ op' = "read_regex"
    /\ arg' = NoArg
    /\ res' = out.res
    /\ s' = out.r.s
    /\ buf' = out.r.buf
    /\ calls' = out.calls
    /\ run' = Idle
    /\ loop' = NoLoop

(* ------------------- specification: stream and scanner ----------------- *)

StreamChars == {"a", " ", "\""}

Init == \E ss \in SeqsUpTo(StreamChars, MaxLen) : Start(ss)

Next ==
    \/ PeekChar
    \/ ReadChar
    \/ \E c \in StreamChars : UnreadChar(c)
    \/ \E p \in Preds, e \in BOOLEAN : ReadWhile(p, e)

Spec == Init /\ [][Next]_vars

(* ---------------------- specification: parse_symbol -------------------- *)

ParseChars == {"a", "b", "/", ":"}

InitParse == Start(<<>>)

NextParse == \E token \in SeqsUpTo(ParseChars, MaxTok) : ParseSymbol(token)

SpecParse == InitParse /\ [][NextParse]_vars

(* ------------------ specification: symbols and keywords ---------------- *)

SymChars == {"a", "/", ":", " ", "("}

InitSym == \E ss \in SeqsUpTo(SymChars, MaxLen) : Start(ss)

NextSym ==
    \/ \E c \in SymChars : Pushback(c)
    \/ ReadChar
    \/ \E initch \in SymChars : ReadToken(initch)
    \/ \E initch \in SymChars : ReadSymbol(initch)
    \/ ReadKeyword

SpecSym == InitSym /\ [][NextSym]_vars

(* ------------------------ specification: keywords ---------------------- *)

KwChars == {"a", ":", " ", "\n", "\r"}

InitKw == \E ss \in SeqsUpTo(KwChars, MaxLen) : Start(ss)

NextKw ==
    \/ \E c \in KwChars : Pushback(c)
    \/ ReadChar
    \/ ReadKeyword

SpecKw == InitKw /\ [][NextKw]_vars

(* ------------------ specification: string and regex literals ----------- *)

StrChars == {"a", "\"", "\\", "n", "t", "r"}

InitStr == \E ss \in SeqsUpTo(StrChars, MaxLen) : Start(ss)

NextStr ==
    \/ \E c \in {"\"", "\\"} : Pushback(c)
    \/ ReadChar
    \/ ReadStringType
    \/ ReadRegex

SpecStr == InitStr /\ [][NextStr]_vars

(* ----------------------- specification: all readers -------------------- *)

ReaderChars == {"a", ":", " ", "\"", "\\"}

(* unread_char by the caller before it invokes a reader, to depth MaxBuf. *)
DeepPushback(c) ==
    /\ op \in {"string_reader", "unread_char"}
    /\ UnreadChar(c)

InitReaders == \E ss \in SeqsUpTo(ReaderChars, MaxLen) : Start(ss)

NextReaders ==
    \/ \E c \in {"a", "\""} : DeepPushback(c)
    \/ \E p \in Preds, e \in BOOLEAN : ReadWhile(p, e)
    \/ \E initch \in {"a"} : ReadToken(initch)
    \/ \E initch \in {"a", ":"} : ReadSymbol(initch)
    \/ ReadKeyword
    \/ ReadRegex
    \/ ReadStringType

SpecReaders == InitReaders /\ [][NextReaders]_vars

(* --------------------- the readers, one iteration at a time ------------ *)

ArgOf(f) ==
    CASE f.fn = "read_while"                  -> [p |-> f.p, eof_err |-> f.eof_err]
      [] f.fn \in {"read_token", "read_symbol"} -> [initch |-> f.initch]
      [] OTHER                                -> NoArg

(* What res holds while the reader called last has not returned. *)
Pending == [pending |-> TRUE]

(* A reader is called and reaches the head of its loop. *)
Begin(fn, p, eof_err, initch) ==
    /\ ~loop.active
    /\ loop' = Frame(fn, p, eof_err, initch, <<>>, Reader(s, buf))
    /\ op' = fn
    /\ arg' = ArgOf(loop')
    /\ res' = Pending
    /\ calls' = <<>>
    /\ run' = Idle
    /\ UNCHANGED <<s, buf>>

BeginReadWhile(p, eof_err) == Begin("read_while", p, eof_err, "")

BeginReadStringType == Begin("read_string_type", "", FALSE, "")

BeginReadRegex == Begin("read_regex", "quote", TRUE, "")

BeginReadToken(initch) == Begin("read_token", "boundary", FALSE, initch)

BeginReadSymbol(initch) == Begin("read_symbol", "boundary", FALSE, initch)

(* read_keyword reads its first character and tests it before the loop of   *)
(* read_token starts.                                                       *)
BeginReadKeyword ==
    /\ ~loop.active
    /\ \E rc \in {read_char(Reader(s, buf))} :
         /\ s' = rc.r.s
         /\ buf' = rc.r.buf
         /\ run' = Idle
         /\ op' = "read_keyword"
         /\ arg' = NoArg
         /\ IF ~rc.res.ok \/ is_whitespace(rc.res.val)
            THEN /\ res' = IF rc.res.ok THEN Err("InvalidToken") ELSE rc.res
                 /\ calls' = << <<"read_char",
                                  IF rc.res.ok THEN rc.res.val ELSE "EOF">> >>
                 /\ loop' = NoLoop
            ELSE /\ loop' = Frame("read_keyword", "boundary", FALSE, rc.res.val,
                                  <<>>, Reader(s, buf))
                 /\ calls' = << <<"read_char", rc.res.val>> >>
                 /\ res' = Pending

(* One iteration st of the running loop: it returns, or it goes round. *)
Iterate(st) ==
    /\ s' = st.r.s
    /\ buf' = st.r.buf
    /\ calls' = st.calls
    /\ run' = Idle
    /\ UNCHANGED <<op, arg>>
    /\ IF st.done
       THEN /\ res' = finish(loop.fn, loop.initch, st.res)
            /\ loop' = NoLoop
       ELSE /\ loop' = [loop EXCEPT !.str = st.str]
            /\ UNCHANGED res

StepReadWhile ==
    /\ loop.active
    /\ loop.fn # "read_string_type"
    /\ \E st \in {read_while_step(Reader(s, buf), loop.p, loop.eof_err,
                                   loop.str, calls)} : Iterate(st)

StepReadStringType ==
    /\ loop.active
    /\ loop.fn = "read_string_type"
    /\ \E st \in {read_string_type_step(Reader(s, buf), loop.str, calls)} :
         Iterate(st)

(* unread_char by the caller, between two readers. *)
CallerPushback(c) == ~loop.active /\ Pushback(c)

InitSteps == \E ss \in SeqsUpTo(ReaderChars, MaxLen) : Start(ss)

NextSteps ==
    \/ \E c \in {"a", "\""} : CallerPushback(c)
    \/ \E p \in Preds, e \in BOOLEAN : BeginReadWhile(p, e)
    \/ BeginReadStringType
    \/ BeginReadRegex
    \/ \E initch \in {"a"} : BeginReadToken(initch)
    \/ \E initch \in {"a", ":"} : BeginReadSymbol(initch)
    \/ BeginReadKeyword
    \/ StepReadWhile
    \/ StepReadStringType

(* The program is sequential: a reader inside its loop keeps running. *)
SpecSteps ==
    /\ InitSteps
    /\ [][NextSteps]_vars
    /\ WF_vars(StepReadWhile)
    /\ WF_vars(StepReadStringType)

(* --------------------------- reference notions ------------------------- *)

(* The characters a reader still holds, in the order read_char is to hand   *)
(* them out: the pushback buffer newest first, then the input.              *)
Remaining(r) == Reverse(r.buf) \o r.s

(* Index of the first character of q satisfying predicate p, 0 if none. *)
FirstIdx(q, p) ==
    IF \E i \in 1..Len(q) : Pred(p, q[i])
    THEN CHOOSE i \in 1..Len(q) :
             /\ Pred(p, q[i])
             /\ \A j \in 1..(i - 1) : ~Pred(p, q[j])
    ELSE 0

IsPrefix(a, b) == Len(a) <= Len(b) /\ a = SubSeq(b, 1, Len(a))

(* The last stream call of the last operation was unread_char. *)
EndedByUnread ==
    Len(calls) > 0 /\ calls[Len(calls)][1] = "unread_char"

(* ------------------------------- claims -------------------------------- *)

(* C1: immediately after unread_char(c), the next peek_char and the next    *)
(* read_char both return exactly c, whatever the pushback buffer held.      *)
C1_UnreadThenPeekAndRead ==
    [][(op = "unread_char" /\ op' \in {"peek_char", "read_char"})
          => res' = Ok(arg.c)]_vars

(* C2: pushback is last-in-first-out and drains before the source: the      *)
(* read_char calls following a run of unread_char calls return the pushed   *)
(* characters newest first, then exactly what the reader held before the    *)
(* run, and report EOF only once all of that has been returned.             *)
C2_PushbackLifo ==
    run.phase = "pop" =>
        LET full == Reverse(run.pushed) \o Remaining(run.base) IN
        /\ IsPrefix(run.got, full)
        /\ run.eof => run.got = full

C2_Witness ==
    /\ run.phase = "pop"
    /\ Len(run.pushed) = 2
    /\ run.pushed[1] # run.pushed[2]
    /\ run.base.buf # <<>>
    /\ run.base.s # <<>>
    /\ Len(run.got) > 3

(* C3: when read_while returns because the predicate held on a character t, *)
(* the next peek_char and the next read_char both return t.                 *)
C3_TerminatorNotConsumed ==
    [][(/\ op = "read_while"
        /\ res.ok
        /\ EndedByUnread
        /\ op' \in {"peek_char", "read_char"})
          => res' = Ok(calls[Len(calls)][2])]_vars

(* C4: read_while returns the characters before the first remaining one     *)
(* that satisfies the predicate, whatever eof_err is; when none does, it    *)
(* fails with EOF if eof_err is true and otherwise returns all remaining    *)
(* characters in order.                                                     *)
C4_ReadWhileEofPolicy ==
    [][op' = "read_while" =>
          LET q == Remaining(Reader(s, buf))
              i == FirstIdx(q, arg'.p)
          IN  res' = IF i > 0 THEN Ok(SubSeq(q, 1, i - 1))
                     ELSE IF arg'.eof_err THEN Err("EOF") ELSE Ok(q)]_vars

C4_Witness ==
    /\ op = "read_while"
    /\ ~arg.eof_err
    /\ res.ok
    /\ ~EndedByUnread
    /\ Len(res.val) = 3
    /\ res.val[1] # res.val[3]

(* The token read_keyword and read_symbol assemble from the characters q:   *)
(* the first character, then the characters up to the next token boundary.  *)
TokenAt(q) ==
    LET rest == Tail(q)
        i    == FirstIdx(rest, "boundary")
    IN  <<Head(q)>> \o (IF i > 0 THEN SubSeq(rest, 1, i - 1) ELSE rest)

Slashes(t) == {i \in 1..Len(t) : t[i] = "/"}

Max(S) == CHOOSE i \in S : \A j \in S : j <= i

(* C5: for every token parse_symbol accepts, name is the suffix after the   *)
(* last '/', and namespace is the whole prefix before the last '/' when     *)
(* there is a '/', absent when there is none.                               *)
C5_SplitAtLastSlash ==
    (op = "parse_symbol" /\ res.ok) =>
        LET t == arg.token IN
        IF Slashes(t) = {}
        THEN res.val = [ns |-> None, name |-> t]
        ELSE LET i == Max(Slashes(t)) IN
             res.val = [ns   |-> Some(SubSeq(t, 1, i - 1)),
                        name |-> SubSeq(t, i + 1, Len(t))]

(* C6: every Symbol read_symbol returns has a non-empty name and, when      *)
(* Namespaced, a non-empty namespace.                                       *)
C6_SymbolComponentsNonEmpty ==
    (op = "read_symbol" /\ res.ok) =>
        /\ res.val.name # <<>>
        /\ res.val.tag = "NamespacedSymbol" => res.val.ns # <<>>

(* C7 as claimed: read_keyword fails with InvalidKeyword whenever the token *)
(* read after the leading ':' itself starts with ':'.                       *)
C7_ColonTokenInvalidKeyword ==
    [][LET q == Remaining(Reader(s, buf)) IN
       (op' = "read_keyword" /\ q # <<>> /\ Head(q) = ":")
           => res' = Err("InvalidKeyword")]_vars

(* C7 as amended: when the token read after the leading ':' starts with     *)
(* ':', read_keyword fails with InvalidKeyword if parse_symbol accepts the  *)
(* token (it neither ends with ':' nor starts with "::") and with           *)
(* InvalidSymbol otherwise.                                                 *)
C7_ColonTokenAmended ==
    [][LET q == Remaining(Reader(s, buf)) IN
       (op' = "read_keyword" /\ q # <<>> /\ Head(q) = ":")
           => LET tok == TokenAt(q) IN
              res' = IF tok[Len(tok)] = ":" \/ (Len(tok) >= 2 /\ tok[2] = ":")
                     THEN Err("InvalidSymbol")
                     ELSE Err("InvalidKeyword")]_vars

C7_Witness ==
    /\ op = "read_keyword"
    /\ res = Err("InvalidKeyword")
    /\ Len(calls) >= 3
    /\ calls[1] = <<"read_char", ":">>
    /\ calls[2] = <<"read_char", "a">>

(* C8: read_keyword fails with InvalidToken exactly when the first          *)
(* character it reads is a space, a newline or a carriage return; on an     *)
(* exhausted stream it fails with EOF.                                      *)
C8_InvalidTokenIffWhitespace ==
    [][op' = "read_keyword" =>
          LET q == Remaining(Reader(s, buf)) IN
          /\ (res' = Err("InvalidToken")) <=> (q # <<>> /\ Head(q) \in {" ", "\n", "\r"})
          /\ q = <<>> => res' = Err("EOF")]_vars

C8_Witness ==
    /\ op = "read_keyword"
    /\ res = Err("InvalidToken")
    /\ calls = << <<"read_char", "\n">> >>
    /\ s # <<>>

(* Reference decoder of a string literal body, by positions.  A character   *)
(* is escaped when an odd number of backslashes runs up to it.              *)
BackslashRun(q, i) ==
    i - Max({0} \cup {j \in 1..i : q[j] # "\\"})

Escaped(q, i) == i > 1 /\ BackslashRun(q, i - 1) % 2 = 1

Min(S) == CHOOSE i \in S : \A j \in S : i <= j

Closers(q) == {i \in 1..Len(q) : q[i] = "\"" /\ ~Escaped(q, i)}

BadEscapes(q) ==
    {i \in 1..Len(q) : Escaped(q, i) /\ q[i] \notin {"t", "r", "n", "\\", "\""}}

Decoded(q, i) ==
    IF ~Escaped(q, i) THEN q[i]
    ELSE CASE q[i] = "t" -> "\t"
           [] q[i] = "r" -> "\r"
           [] q[i] = "n" -> "\n"
           [] OTHER      -> q[i]

(* The body before position n, every escaping backslash dropped. *)
DecodedBefore(q, n) ==
    LET K == {i \in 1..(n - 1) : ~(q[i] = "\\" /\ ~Escaped(q, i))}
        nth(k) == CHOOSE i \in K : Cardinality({j \in K : j <= i}) = k
    IN  [k \in 1..Cardinality(K) |-> Decoded(q, nth(k))]

RefString(q) ==
    IF BadEscapes(q) # {} /\ (Closers(q) = {} \/ Min(BadEscapes(q)) < Min(Closers(q)))
    THEN [res |-> Err("InvalidCharacter"), rest |-> <<>>]
    ELSE IF Closers(q) # {}
         THEN [res  |-> Ok(DecodedBefore(q, Min(Closers(q)))),
               rest |-> SubSeq(q, Min(Closers(q)) + 1, Len(q))]
         ELSE [res |-> Err("EOF"), rest |-> <<>>]

(* C9: read_string_type agrees with the reference decoder: the characters   *)
(* up to the first unescaped quote with the escape pairs decoded, the       *)
(* stream left just after that quote; InvalidCharacter on any other escape; *)
(* EOF when the input ends before an unescaped closing quote.               *)
C9_StringMatchesReference ==
    [][op' = "read_string_type" =>
          LET ref == RefString(Remaining(Reader(s, buf))) IN
          /\ res' = ref.res
          /\ ref.res.ok => Remaining(Reader(s', buf')) = ref.rest]_vars

C9_Witness ==
    /\ op = "read_string_type"
    /\ res = Ok(<<"\n">>)
    /\ calls[1] = <<"read_char", "\\">>
    /\ s # <<>>

(* C10: read_regex returns as the Pattern body exactly the characters       *)
(* before the first quote of the remaining stream, verbatim, and fails with *)
(* EOF when the remaining stream holds no quote.                            *)
C10_RegexUpToFirstQuote ==
    [][op' = "read_regex" =>
          LET q      == Remaining(Reader(s, buf))
              quotes == {i \in 1..Len(q) : q[i] = "\""}
          IN  res' = IF quotes = {} THEN Err("EOF")
                     ELSE Ok(Pattern(SubSeq(q, 1, Min(quotes) - 1)))]_vars

C10_Witness ==
    /\ op = "read_regex"
    /\ res = Ok(Pattern(<<"a", "\\">>))

(* Re-reading a rendered text with the matching reader, the introducer      *)
(* characters consumed first: a symbol's first character is handed over as  *)
(* initch, a keyword's leading ':' and a pattern's '#' and opening quote    *)
(* are dropped.                                                             *)
RereadSymbol(text) == read_symbol(string_reader(Tail(text)), Head(text)).res

RereadKeyword(text) == read_keyword(string_reader(Tail(text))).res

RereadPattern(text) == read_regex(string_reader(Tail(Tail(text)))).res

(* C11: every Symbol, Keyword or Pattern a reader returns, rendered as the  *)
(* printer renders it and read again with the matching reader, yields an    *)
(* equal value.                                                             *)
C11_ReadPrintRoundTrip ==
    /\ (op = "read_symbol" /\ res.ok) => RereadSymbol(display_symbol(res.val)) = res
    /\ (op = "read_keyword" /\ res.ok) => RereadKeyword(display_keyword(res.val)) = res
    /\ (op = "read_regex" /\ res.ok) => RereadPattern(display_pattern(res.val)) = res

(* C12: read_symbol returns Simple("/") exactly when the full token, the    *)
(* initial character plus the characters up to the next token boundary or   *)
(* the end of input, is "/".                                                *)
C12_LoneSlashIsSimple ==
    [][op' = "read_symbol" =>
          LET token == TokenAt(<<arg'.initch>> \o Remaining(Reader(s, buf))) IN
          (res' = Ok(SimpleSymbol(<<"/">>))) <=> (token = <<"/">>)]_vars

C12_Witness ==
    /\ op = "read_symbol"
    /\ arg.initch = "/"
    /\ res = Ok(SimpleSymbol(<<"/">>))
    /\ EndedByUnread
    /\ Len(calls) = 2

(* The characters read_char hands out from reader r until it reports EOF. *)
RECURSIVE Drain(_)
Drain(r) ==
    LET rc == read_char(r) IN
    IF rc.res.ok THEN <<rc.res.val>> \o Drain(rc.r) ELSE <<>>

(* C13: peek_char leaves the pushback buffer and the remaining input        *)
(* unchanged, so the read_char calls after it return what they would have   *)
(* returned without it.                                                     *)
C13_PeekIsPure ==
    [][op' = "peek_char" =>
          /\ buf' = buf
          /\ s' = s
          /\ Drain(Reader(s', buf')) = Drain(Reader(s, buf))]_vars

C13_Witness ==
    /\ op = "peek_char"
    /\ res.ok
    /\ Len(buf) = 2
    /\ buf[1] # buf[2]
    /\ s # <<>>

(* C14: every Keyword read_keyword returns has a name, and a namespace when *)
(* present, free of whitespace and of macro-terminating characters.         *)
C14_KeywordOfTokenChars ==
    (op = "read_keyword" /\ res.ok) =>
        LET text == IF res.val.tag = "NamespacedKeyword"
                    THEN res.val.ns \o res.val.name
                    ELSE res.val.name
        IN  \A i \in 1..Len(text) :
                ~is_whitespace(text[i]) /\ ~is_macro_terminating(text[i])

(* C15: after read_regex succeeds the closing quote is still in the stream: *)
(* it is the newest character of the pushback buffer and the next read_char *)
(* returns it.                                                              *)
C15_RegexLeavesClosingQuote ==
    [][/\ (op' = "read_regex" /\ res'.ok)
            => (buf' # <<>> /\ buf'[Len(buf')] = "\"")
       /\ (op = "read_regex" /\ res.ok /\ op' = "read_char")
            => res' = Ok("\"")]_vars

C15_Witness ==
    /\ op = "read_regex"
    /\ res.ok
    /\ res.val.body # <<>>
    /\ buf = <<"\"">>
    /\ s # <<>>

ReaderOps ==
    {"read_while", "read_token", "read_symbol", "read_keyword", "read_regex",
     "read_string_type"}

(* The positions of the unread_char calls in a trace of stream calls. *)
Unreads(cs) == {i \in 1..Len(cs) : cs[i][1] = "unread_char"}

(* C16: within one invocation of a reader unread_char is called at most     *)
(* once, on the character just read and as the last stream call, so the     *)
(* pushback buffer at exit is no longer than at entry (or 1 if it was       *)
(* empty).                                                                  *)
C16_SingleCharacterPushback ==
    [][op' \in ReaderOps =>
          /\ Cardinality(Unreads(calls')) <= 1
          /\ \A i \in Unreads(calls') :
                 /\ i = Len(calls')
                 /\ i > 1
                 /\ calls'[i - 1] = <<"read_char", calls'[i][2]>>
          /\ Len(buf') <= IF buf = <<>> THEN 1 ELSE Len(buf)]_vars

C16_Witness ==
    /\ op = "read_keyword"
    /\ res.ok
    /\ EndedByUnread
    /\ Len(calls) = 3
    /\ Len(buf) = 2

(* The reader fn called on reader r, as one atomic operation. *)
Atomic(f) ==
    CASE f.fn = "read_while"       -> read_while(f.entry, f.p, f.eof_err)
      [] f.fn = "read_string_type" -> read_string_type(f.entry)
      [] f.fn = "read_regex"       -> read_regex(f.entry)
      [] f.fn = "read_token"       -> read_token(f.entry, f.initch)
      [] f.fn = "read_symbol"      -> read_symbol(f.entry, f.initch)
      [] f.fn = "read_keyword"     -> read_keyword(f.entry)

(* The iterations, run one at a time, end where the atomic reader ends. *)
StepsAgreeWithAtomic ==
    [][loop.active /\ ~loop'.active =>
          /\ res' = Atomic(loop).res
          /\ Reader(s', buf') = Atomic(loop).r
          /\ calls' = Atomic(loop).calls]_vars

ResultKind(w) == IF w.ok THEN "value" ELSE w.err

(* C17: every reader terminates on every finite input and pushback buffer   *)
(* with a value or one ReaderError kind; each loop iteration consumes one   *)
(* character from the buffer or the input, or returns.                      *)
C17_ReadersTerminate ==
    /\ loop.active ~> (~loop.active /\ ResultKind(res) \in {"value"} \cup ReaderError)
    /\ [][loop.active =>
             \/ /\ ~loop'.active
                /\ op' = loop.fn
                /\ ResultKind(res') \in {"value"} \cup ReaderError
             \/ /\ loop'.active
                /\ loop'.fn = loop.fn
                /\ res' = Pending
                /\ Len(Remaining(Reader(s', buf')))
                       < Len(Remaining(Reader(s, buf)))]_vars
    /\ [][op' = "read_keyword" /\ ~loop.active /\ ~loop'.active =>
             ResultKind(res') \in ReaderError]_vars

C17_Witness ==
    /\ ~loop.active
    /\ op = "read_string_type"
    /\ res.ok
    /\ Len(res.val) = 2
    /\ Len(calls) = 4
    /\ s = <<>>
    /\ buf = <<>>

====
